---- MODULE Spec2Model ----
(***************************************************************************)
(* A model of the carver driver of caire (process.go): Processor.Resize,   *)
(* the four mutually recursive closures shrinkHorizFn / enlargeHorizFn /   *)
(* shrinkVertFn / enlargeVertFn, Processor.shrink / Processor.enlarge,     *)
(* calculateFitness, the package-level variables they share, and the       *)
(* goroutines that hand every intermediate buffer to the imgWorker channel.*)
(*                                                                         *)
(* An image is abstracted to its bounds, its orientation and the debug     *)
(* writes made to it.  The float64 expressions of the source are computed  *)
(* in exact integer arithmetic; on the domains used here (sides up to 12,  *)
(* the targets and percents below) the two agree.                          *)
(***************************************************************************)
EXTENDS Integers, Sequences, FiniteSets, TLC

\* ------------------------------------------------------------------ bounds
MaxDim == 4          \* source images are 1..MaxDim pixels on each side
MaxTarget == 5       \* NewWidth / NewHeight in pixels are 0..MaxTarget
MaxCalls == 2        \* invocations of Resize in one behaviour of Spec
DetCalls == 3        \* invocations in one behaviour of SpecDet
SinkDim == 5         \* side of the sources of SpecSink
SinkCalls == 1       \* invocations in one behaviour of SpecSink
ConcDim == 4         \* side of the sources of SpecConc
ConcCalls == 2       \* invocations in one behaviour of SpecConc
DetDim == 4          \* side of the sources of SpecDet
SeqDim == 5          \* side of the sources of SpecSeq
SeqCalls == 2        \* invocations in one behaviour of SpecSeq

Procs == {1, 2}
Percents == {0, 30, 50, 100, 150}
FnNames == {"shrinkHorizFn", "enlargeHorizFn", "shrinkVertFn", "enlargeVertFn"}

\* ------------------------------------------------------- integer helpers
absint(i) == IF i < 0 THEN -i ELSE i

min(v1, v2) == IF v1 < v2 THEN v1 ELSE v2

\* int(x) of a float64 x = a / b (b > 0): truncation towards zero.
TruncDiv(a, b) == IF a >= 0 THEN a \div b ELSE -((-a) \div b)

\* math.Round(a / b) for a >= 0, b > 0: half away from zero.
RoundDiv(a, b) == (2 * a + b) \div (2 * b)

\* ------------------------------------------------------------------ images
\* *image.NRGBA: nil, or a buffer w x h; rot counts the quarter turns applied
\* to it, paint the seams written back into it by the debug branch of shrink.
NilImg == [nil |-> TRUE, w |-> 0, h |-> 0, rot |-> 0, paint |-> {}]

NewImg(w, h) == [nil |-> FALSE, w |-> w, h |-> h, rot |-> 0, paint |-> {}]

RotateImage90(img) == [img EXCEPT !.w = img.h, !.h = img.w, !.rot = (img.rot + 1) % 4]

RotateImage270(img) == [img EXCEPT !.w = img.h, !.h = img.w, !.rot = (img.rot + 3) % 4]

\* imaging.Resize(img, width, height, Lanczos): a zero side keeps the aspect
\* ratio (at least one pixel); both zero give the empty image.
ImagingResize(img, width, height) ==
    IF (width = 0 /\ height = 0) \/ img.w <= 0 \/ img.h <= 0
    THEN [img EXCEPT !.w = 0, !.h = 0]
    ELSE LET dstW == IF width = 0
                     THEN LET t == (2 * height * img.w + img.h) \div (2 * img.h)
                          IN  IF t < 1 THEN 1 ELSE t
                     ELSE width
             dstH == IF height = 0
                     THEN LET t == (2 * dstW * img.h + img.w) \div (2 * img.w)
                          IN  IF t < 1 THEN 1 ELSE t
                     ELSE height
         IN  [img EXCEPT !.w = dstW, !.h = dstH]

\* NewCarver(width, height)
NewCarver(width, height) == [Width |-> width, Height |-> height]

\* The seam finder fails on a buffer that has collapsed to a width of at most
\* two pixels.
MinSeamWidth == 3

ComputeSeamsFails(img) == img.w < MinSeamWidth

\* math.Round(w / math.Min(wsf, hsf)) and math.Round(h / math.Min(wsf, hsf))
\* of calculateFitness (lines 371-374), with wsf = w/nw and hsf = h/nh:
\* wsf <= hsf iff w*nh <= h*nw.
ScaledWidth(w, h, nw, nh) ==
    IF w * nh <= h * nw THEN RoundDiv(w * nw, w) ELSE RoundDiv(w * nh, h)

ScaledHeight(w, h, nw, nh) ==
    IF w * nh <= h * nw THEN RoundDiv(h * nw, w) ELSE RoundDiv(h * nh, h)

\* What one activation of calculateFitness leaves (lines 381-385): the
\* rescaled image, the carver with its Width and Height set to the bounds of
\* that image, and whether the activation calls calculateFitness again.
Fitted(newImg, again) ==
    [img |-> newImg, c |-> NewCarver(newImg.w, newImg.h), again |-> again]

\* Lines 376-385 of one activation, given sw and sh.
FitnessScaled(NewWidth, NewHeight, img, sw, sh) ==
    Fitted(IF sw <= sh THEN ImagingResize(img, 0, sw)
                       ELSE ImagingResize(img, 0, sh),
           sw < NewWidth \/ sh < NewHeight)

\* One activation of calculateFitness (lines 363-385).
FitnessOnce(NewWidth, NewHeight, img, c) ==
    FitnessScaled(NewWidth, NewHeight, img,
                  ScaledWidth(c.Width, c.Height, NewWidth, NewHeight),
                  ScaledHeight(c.Width, c.Height, NewWidth, NewHeight))

\* Lines 385-388: the inner activation returns its image to nobody and
\* leaves its bounds in the carver.
FitnessAgain(NewWidth, NewHeight, outer) ==
    [img |-> outer.img,
     c |-> IF outer.again
           THEN FitnessOnce(NewWidth, NewHeight, outer.img, outer.c).c
           ELSE outer.c]

\* calculateFitness (lines 363-389).  Dividing by the smaller factor gives
\* sw >= NewWidth and sh >= NewHeight, so the call of line 386 is never
\* made; the model follows it one activation deep.
calculateFitness(NewWidth, NewHeight, img, c) ==
    FitnessAgain(NewWidth, NewHeight, FitnessOnce(NewWidth, NewHeight, img, c))

\* ------------------------------------------------- Resize, lines 92 to 333
\* newWidth / newHeight of Resize (lines 102-119).
Delta(New, Old) ==
    IF New = 0 THEN New
    ELSE IF New > Old THEN New - (New - (New - Old))
         ELSE Old - (Old - (Old - New))

\* c.Width - int(float64(c.Width) - (float64(pct)/100*float64(c.Width)))
PercentPart(side, pct) == side - TruncDiv(100 * side - pct * side, 100)

\* The working state of Resize: the Processor P (its fields are assigned to),
\* the Carver c, the buffer img, the number of imaging.Resize calls so far,
\* and, once Resize has returned early, done and the returned pair ret.
Working(P, c, img) ==
    [P |-> P, c |-> c, img |-> img, rescales |-> 0, done |-> FALSE,
     ret |-> [img |-> NilImg, err |-> "nil"]]

\* Lines 256-260, given the two new targets.
RescaleSquareSource(s, nw, nh) ==
    [s EXCEPT !.P.NewWidth = nw, !.P.NewHeight = nh,
              !.rescales = s.rescales + 1, !.done = TRUE,
              !.ret = [img |-> ImagingResize(s.img, min(nw, nh), 0),
                       err |-> "nil"]]

\* Lines 252-261: Percentage on a square source is a plain rescale.
PercentageSquareSource(s) ==
    RescaleSquareSource(s,
        absint(s.c.Width - PercentPart(s.c.Width, s.P.NewWidth)),
        absint(s.c.Height - PercentPart(s.c.Height, s.P.NewHeight)))

\* Lines 271-287, given the result of calculateFitness.
SquareFitted(s, fit) ==
    [s EXCEPT !.P.NewWidth = min(fit.img.w, fit.img.h),
              !.P.NewHeight = min(fit.img.w, fit.img.h),
              !.c = fit.c, !.img = fit.img, !.rescales = s.rescales + 1]

\* Lines 267-270, given min(p.NewWidth, p.NewHeight).
SquareSide(s, side) == SquareFitted(s, calculateFitness(side, side, s.img, s.c))

\* Lines 264-291: the Square option.
SquareStage(s) ==
    IF ~s.P.Square THEN s
    ELSE IF s.P.NewWidth # 0 /\ s.P.NewHeight # 0
    THEN SquareSide(s, min(s.P.NewWidth, s.P.NewHeight))
    ELSE [s EXCEPT !.done = TRUE,
                   !.ret = [img |-> NilImg, err |-> "square"]]

\* Lines 299-307, given pw and ph.
PercentageResolved(s, pw, ph) ==
    IF pw >= s.c.Width \/ ph >= s.c.Height
    THEN [s EXCEPT !.P.NewWidth = IF @ # 0 THEN absint(s.c.Width - pw) ELSE @,
                   !.P.NewHeight = IF @ # 0 THEN absint(s.c.Height - ph) ELSE @,
                   !.done = TRUE,
                   !.ret = [img |-> NilImg, err |-> "percentage"]]
    ELSE [s EXCEPT !.P.NewWidth = IF @ # 0 THEN absint(s.c.Width - pw) ELSE @,
                   !.P.NewHeight = IF @ # 0 THEN absint(s.c.Height - ph) ELSE @]

\* Lines 294-308: the Percentage option.
PercentageStage(s) ==
    IF s.done \/ ~s.P.Percentage THEN s
    ELSE PercentageResolved(s, PercentPart(s.c.Width, s.P.NewWidth),
                               PercentPart(s.c.Height, s.P.NewHeight))

\* Lines 246-309.
OptionStage(s) ==
    IF ~(s.P.Percentage \/ s.P.Square) THEN s
    ELSE IF s.P.Percentage /\ s.c.Width - s.c.Height = 0
                           /\ s.c.Height - s.c.Width = 0
    THEN PercentageSquareSource(s)
    ELSE PercentageStage(SquareStage(s))

\* Lines 322-332, given the result of calculateFitness.
Prescaled(s, fit) ==
    IF ~((s.P.NewWidth = 0 /\ s.img.w = fit.img.w)
         \/ (s.P.NewHeight = 0 /\ s.img.h = fit.img.h))
    THEN [s EXCEPT !.c = fit.c, !.img = fit.img, !.rescales = s.rescales + 1]
    ELSE [s EXCEPT !.c = fit.c, !.rescales = s.rescales + 1]

\* Lines 317-333: the proportional pre-scale.
PrescaleStage(s) ==
    IF s.done THEN s
    ELSE IF (s.c.Width > s.P.NewWidth /\ s.c.Height > s.P.NewHeight)
            /\ (s.P.NewWidth # 0 /\ s.P.NewHeight # 0)
    THEN Prescaled(s, calculateFitness(s.P.NewWidth, s.P.NewHeight, s.img, s.c))
    ELSE s

\* Lines 92-333 for Processor P and source img.
ResizeEntry(P, img) ==
    PrescaleStage(OptionStage(Working(P, NewCarver(img.w, img.h), img)))

\* ------------------------------------------- shrink, enlarge, the closures
\* What shrink and enlarge return to the closure: the error, the new buffer
\* and the Processor as they leave it.
Carved(failed, img, P) == [failed |-> failed, img |-> img, P |-> P]

\* Carver.RemoveSeam and Carver.AddSeam: the buffer with one seam, a column
\* of one pixel per row, taken out or put in.
RemoveSeam(img) == [img EXCEPT !.w = img.w - 1]

AddSeam(img) == [img EXCEPT !.w = img.w + 1]

\* Processor.shrink (lines 485-504) on the buffer: ComputeSeams may fail;
\* RemoveSeam takes one column; with Debug the seams kept in p.seams are
\* written into the new buffer and replaced by the seams of this carver.
Shrink(P, img) ==
    IF ComputeSeamsFails(img) THEN Carved(TRUE, NilImg, P)
    ELSE IF P.Debug
    THEN Carved(FALSE,
                [RemoveSeam(img) EXCEPT !.paint = img.paint \cup P.seams],
                [P EXCEPT !.seams = {<<img.w, img.h>>}])
    ELSE Carved(FALSE, RemoveSeam(img), P)

\* Processor.enlarge (lines 526-533): AddSeam adds one column.
Enlarge(P, img) ==
    IF ComputeSeamsFails(img) THEN Carved(TRUE, NilImg, P)
    ELSE Carved(FALSE, AddSeam(img), P)

\* The frame of encodeImgToGif (lines 613-617 and 634-637).
GifFrame(P, src) ==
    IF P.NewHeight # 0
    THEN [w |-> src.h, h |-> src.w, src |-> RotateImage270(src)]
    ELSE [w |-> src.w, h |-> src.h, src |-> src]

\* Lines 619-632 of encodeImgToGif: whether g.Config is set to the bounds of
\* the frame plus one.
GifConfigSet(P, count, dx) ==
    \/ P.NewWidth > dx
    \/ P.NewHeight > (IF P.NewWidth > dx THEN dx + count ELSE dx - count)

\* encodeImgToGif (lines 612-640), given the frame.
GifAppend(P, count, src, gg, frame) ==
    [Config |-> IF GifConfigSet(P, count, src.w)
                THEN [Width |-> frame.w + 1, Height |-> frame.h + 1]
                ELSE gg.Config,
     Image |-> Append(gg.Image, frame)]

EncodeImgToGif(P, count, src, gg) ==
    GifAppend(P, count, src, gg, GifFrame(P, src))

\* What one call of a closure does: whether it carved, whether the carve
\* failed, the image it goes on with, the Processor, the buffer that shrink
\* or enlarge handed to the sink, and the closure it calls next ("return"
\* when it calls none and returns).
Stepped(carved, failed, img, P, buf, next) ==
    [carved |-> carved, failed |-> failed, img |-> img, P |-> P, buf |-> buf,
     next |-> next]

\* Lines 129-141 (shrinkHorizFn) and 151-163 (enlargeHorizFn), given the
\* result r of shrink or enlarge.
HorizCarved(self, P, dy, r) ==
    Stepped(TRUE, r.failed, r.img, r.P, r.img,
            IF r.failed THEN "return"
            ELSE IF P.NewHeight > 0 /\ P.NewHeight # dy
            THEN IF P.NewHeight <= dy THEN "shrinkVertFn" ELSE "enlargeVertFn"
            ELSE self)

\* One call of shrinkHorizFn (shrinking) or enlargeHorizFn (lines 126-167).
HorizFn(shrinking, P, img) ==
    IF shrinking /\ img.w > P.NewWidth
    THEN HorizCarved("shrinkHorizFn", P, img.h, Shrink(P, img))
    ELSE IF ~shrinking /\ img.w < P.NewWidth
    THEN HorizCarved("enlargeHorizFn", P, img.h, Enlarge(P, img))
    ELSE Stepped(FALSE, FALSE, img, P, img, "return")

\* Lines 182-197 (shrinkVertFn) and 217-232 (enlargeVertFn), given the
\* result r of shrink or enlarge.
VertCarved(self, P, both, dy, r) ==
    Stepped(TRUE, r.failed,
            IF r.failed THEN NilImg
            ELSE IF both THEN RotateImage270(r.img) ELSE r.img,
            r.P, r.img,
            IF r.failed THEN "return"
            ELSE IF P.NewWidth > 0 /\ P.NewWidth # dy
            THEN IF P.NewWidth <= dy THEN "shrinkHorizFn" ELSE "enlargeHorizFn"
            ELSE self)

\* Lines 177-203 and 212-239, given dx, dy and the image as lines 172-180
\* leave them.
VertTurned(shrinking, P, both, dx, dy, img1) ==
    IF shrinking /\ dx > P.NewHeight
    THEN VertCarved("shrinkVertFn", P, both, dy, Shrink(P, img1))
    ELSE IF ~shrinking /\ dx < P.NewHeight
    THEN VertCarved("enlargeVertFn", P, both, dy, Enlarge(P, img1))
    ELSE Stepped(FALSE, FALSE,
                 IF both THEN RotateImage270(img1) ELSE img1, P, img1, "return")

\* The vertical closure without the quarter turn of lines 177-180 (214-216).
VertFnUnturned(shrinking, P, both, img) ==
    VertTurned(shrinking, [P EXCEPT !.vRes = TRUE], both,
               IF both THEN img.h ELSE img.w,
               IF both THEN img.w ELSE img.h,
               img)

\* One call of shrinkVertFn (shrinking) or enlargeVertFn (lines 170-240).
\* both is the value of resizeBothSide.
VertFn(shrinking, P, both, img) ==
    VertTurned(shrinking, [P EXCEPT !.vRes = TRUE], both,
               IF both THEN img.h ELSE img.w,
               IF both THEN img.w ELSE img.h,
               IF both THEN RotateImage90(img) ELSE img)

\* The body of the closure stored under name.
Closure(name, P, both, img) ==
    CASE name = "shrinkHorizFn" -> HorizFn(TRUE, P, img)
      [] name = "enlargeHorizFn" -> HorizFn(FALSE, P, img)
      [] name = "shrinkVertFn" -> VertFn(TRUE, P, both, img)
      [] OTHER -> VertFn(FALSE, P, both, img)

\* -------------------------------------------------------------------- state
VARIABLES
    resizeBothSide,  \* package variable resizeBothSide
    isGif,           \* package variable isGif
    rCount,          \* package variable rCount
    g,               \* package variable g: the animation being recorded
    fn,              \* the Resize invocation whose closure each of the four
                     \* package variables shrinkHorizFn ... holds (0: nil)
    proc,            \* per goroutine: the Processor value it uses
    inv,             \* per goroutine: the Resize (Process) invocation it runs
    pending,         \* the goroutines started by shrink/enlarge that wait in
                     \* their select to send on imgWorker
    received,        \* what has been received from imgWorker, in order
    dropped,         \* the waiting goroutines ended by a value on errs
    calls,           \* invocations started so far
    first            \* the first noted outcome (input, result)

vars == <<resizeBothSide, isGif, rCount, g, fn, proc, inv, pending, received,
          dropped, calls, first>>

\* Processor{...}: the options a caller sets, the private fields zero.
Processor(in) ==
    [NewWidth |-> in.NewWidth, NewHeight |-> in.NewHeight,
     Percentage |-> in.Percentage, Square |-> in.Square, Debug |-> in.Debug,
     seams |-> {}, vRes |-> FALSE]

NoProcessor ==
    [NewWidth |-> 0, NewHeight |-> 0, Percentage |-> FALSE, Square |-> FALSE,
     Debug |-> FALSE, seams |-> {}, vRes |-> FALSE]

NoInput ==
    [W |-> 0, H |-> 0, NewWidth |-> 0, NewHeight |-> 0, Percentage |-> FALSE,
     Square |-> FALSE, Debug |-> FALSE, gif |-> FALSE]

\* A goroutine that runs no invocation.  buf is the buffer that the last
\* carve step of the invocation left (img of shrink and enlarge at their
\* return).
Idle ==
    [pc |-> "idle", in |-> NoInput, img |-> NilImg, c |-> NewCarver(0, 0),
     newWidth |-> 0, newHeight |-> 0, call |-> "none", depth |-> 0,
     iter |-> 0, rescales |-> 0, failed |-> FALSE, foreign |-> FALSE,
     ret |-> [img |-> NilImg, err |-> "nil"], encoded |-> FALSE, no |-> 0,
     buf |-> NilImg]

Init ==
    /\ resizeBothSide = FALSE
    /\ isGif = FALSE
    /\ rCount = 0
    /\ g = [Config |-> [Width |-> 0, Height |-> 0], Image |-> <<>>]
    /\ fn = [n \in FnNames |-> 0]
    /\ proc = [p \in Procs |-> NoProcessor]
    /\ inv = [p \in Procs |-> Idle]
    /\ pending = {}
    /\ received = <<>>
    /\ dropped = {}
    /\ calls = 0
    /\ first = [set |-> FALSE, in |-> NoInput, kind |-> "none",
                ret |-> [img |-> NilImg, err |-> "nil"]]

\* ----------------------------------------------------------------- actions
\* The invocation as Resize has it at line 335: the entry state s of lines
\* 92-333 and the deltas of lines 102-119.
Started(in, s, newWidth, newHeight, no) ==
    [Idle EXCEPT !.in = in, !.img = s.img, !.c = s.c, !.newWidth = newWidth,
                 !.newHeight = newHeight, !.rescales = s.rescales, !.no = no]

\* Lines 246-309 and 335-342: the early return, or the first closure call.
Entered(s, started) ==
    IF s.done
    THEN [started EXCEPT !.pc = "done", !.ret = s.ret,
                         !.encoded = (s.ret.err = "nil")]
    ELSE IF started.newWidth > 0 /\ s.P.NewWidth # s.c.Width
    THEN [started EXCEPT !.pc = "horiz",
                         !.call = IF s.P.NewWidth > s.c.Width
                                  THEN "enlargeHorizFn" ELSE "shrinkHorizFn"]
    ELSE [started EXCEPT !.pc = "mid"]

\* Process (lines 441-480) calling Resize (lines 91-342) on Processor P with
\* a decoded source of in.W x in.H, given the entry state s: the destination
\* decides isGif and g, Resize sets rCount, the four closures and
\* resizeBothSide, and runs up to its first closure call or returns early.
EnterWith(p, P, in, s) ==
    /\ calls' = calls + 1
    /\ rCount' = 0
    /\ fn' = [n \in FnNames |-> p]
    /\ resizeBothSide' = IF P.NewWidth # 0 /\ P.NewHeight # 0
                         THEN TRUE ELSE resizeBothSide
    /\ isGif' = IF in.gif THEN TRUE ELSE isGif
    /\ g' = IF in.gif THEN [Config |-> [Width |-> 0, Height |-> 0],
                            Image |-> <<>>]
            ELSE g
    /\ proc' = [proc EXCEPT ![p] = s.P]
    /\ inv' = [inv EXCEPT ![p] =
                 Entered(s, Started(in, s, Delta(P.NewWidth, in.W),
                                    Delta(P.NewHeight, in.H), calls + 1))]
    /\ UNCHANGED <<pending, received, dropped, first>>

Enter(p, P, in) == EnterWith(p, P, in, ResizeEntry(P, NewImg(in.W, in.H)))

\* A caller builds a Processor from its options and processes an image.
Call(p, in, limit) ==
    /\ inv[p].pc = "idle"
    /\ calls < limit
    /\ Enter(p, Processor(in), in)

\* A caller processes another image with the Processor it used before, its
\* fields as the last invocation left them.
CallAgain(p, W, H, gif, limit) ==
    /\ inv[p].pc \in {"done", "panicked"}
    /\ calls < limit
    /\ Enter(p, proc[p],
             [W |-> W, H |-> H, NewWidth |-> proc[p].NewWidth,
              NewHeight |-> proc[p].NewHeight,
              Percentage |-> proc[p].Percentage, Square |-> proc[p].Square,
              Debug |-> proc[p].Debug, gif |-> gif])

Running == {"horiz", "mid", "vert", "end"}

\* The send on imgWorker made by the carving goroutine itself, without the go
\* statement: it waits until the buffers sent before have been taken.
SendInline(waiting) == waiting = {}

\* shrink and enlarge hand the buffer to a new goroutine (go func, lines 512
\* and 539): the statement waits for nothing, whatever waits on imgWorker.
GoSend(waiting) == TRUE

\* The invocation after the closure call with result r: the frame stays on
\* the stack when it calls another closure; when it calls none, every frame
\* of the pass returns.
Advanced(me, r, foreign) ==
    [me EXCEPT !.img = r.img,
               !.buf = IF r.carved /\ ~r.failed THEN r.buf ELSE me.buf,
               !.failed = me.failed \/ r.failed,
               !.foreign = me.foreign \/ foreign,
               !.iter = IF r.carved /\ ~r.failed THEN me.iter + 1 ELSE me.iter,
               !.pc = IF r.next # "return" THEN me.pc
                      ELSE IF me.pc = "horiz" THEN "mid" ELSE "end",
               !.call = IF r.next = "return" THEN "none" ELSE r.next,
               !.depth = IF r.next = "return" THEN 0 ELSE me.depth + 1]

\* rCount after the closure call: each returning frame adds one (lines 143,
\* 165, 203, 238), except the frame that returns the error.
Counted(count, depth, r) ==
    IF r.next # "return" THEN count
    ELSE IF r.failed THEN count + depth
    ELSE count + depth + 1

\* One call of a closure by invocation p, the closure being the one stored
\* by invocation q, with result r.
CallFnWith(p, q, r) ==
    /\ (r.carved /\ ~r.failed) => GoSend(pending)
    /\ proc' = [proc EXCEPT ![q] = r.P]
    /\ inv' = [inv EXCEPT ![p] = Advanced(inv[p], r, q # p)]
    /\ rCount' = Counted(rCount, inv[p].depth, r)
    /\ g' = IF r.carved /\ ~r.failed /\ isGif
            THEN EncodeImgToGif(r.P, rCount, r.buf, g) ELSE g
    /\ pending' = IF r.carved /\ ~r.failed
                  THEN pending \cup {[no |-> inv[p].no, iter |-> inv[p].iter + 1]}
                  ELSE pending

\* A closure called with a nil image: img.Bounds() panics (lines 127, 149,
\* 172, 210), in the vertical closures after p.vRes = true.
CallFnNil(p, q) ==
    /\ inv' = [inv EXCEPT ![p].pc = "panicked"]
    /\ proc' = IF inv[p].call \in {"shrinkVertFn", "enlargeVertFn"}
               THEN [proc EXCEPT ![q].vRes = TRUE] ELSE proc
    /\ UNCHANGED <<rCount, g, pending>>

\* One call of the closure that inv[p].call names, through the package
\* variable (lines 126-240, with shrink lines 485-523 or enlarge lines
\* 526-551).  The closure reads the Processor of the invocation that stored
\* it.
CallFn(p) ==
    /\ inv[p].pc \in {"horiz", "vert"}
    /\ IF inv[p].img.nil
       THEN CallFnNil(p, fn[inv[p].call])
       ELSE CallFnWith(p, fn[inv[p].call],
                       Closure(inv[p].call, proc[fn[inv[p].call]],
                               resizeBothSide, inv[p].img))
    /\ UNCHANGED <<resizeBothSide, isGif, fn, received, dropped, calls, first>>

\* Resize, lines 345-353 (and 359 when the height is left alone).
VertEntry(p) ==
    LET me == inv[p]
        P == proc[p]
    IN  /\ me.pc = "mid"
        /\ IF me.newHeight > 0 /\ P.NewHeight # me.c.Height
           THEN IF ~resizeBothSide /\ me.img.nil
                THEN \* c.RotateImage90 of a nil image
                     inv' = [inv EXCEPT ![p].pc = "panicked"]
                ELSE inv' = [inv EXCEPT ![p] =
                        [me EXCEPT
                           !.pc = "vert",
                           !.img = IF ~resizeBothSide THEN RotateImage90(me.img)
                                   ELSE me.img,
                           !.call = IF P.NewHeight > me.c.Height
                                    THEN "enlargeVertFn" ELSE "shrinkVertFn"]]
           ELSE inv' = [inv EXCEPT ![p] =
                   [me EXCEPT !.pc = "done",
                              !.ret = [img |-> me.img, err |-> "nil"],
                              !.encoded = TRUE]]
        /\ UNCHANGED <<resizeBothSide, isGif, rCount, g, fn, proc, pending,
                       received, dropped, calls, first>>

\* Resize, lines 354-359, and Process handing the result to its encoder.
Finish(p) ==
    LET me == inv[p]
    IN  /\ me.pc = "end"
        /\ IF ~resizeBothSide /\ me.img.nil
           THEN \* c.RotateImage270 of a nil image
                inv' = [inv EXCEPT ![p].pc = "panicked"]
           ELSE inv' = [inv EXCEPT ![p] =
                   [me EXCEPT !.pc = "done",
                              !.ret = [img |-> IF ~resizeBothSide
                                               THEN RotateImage270(me.img)
                                               ELSE me.img,
                                       err |-> "nil"],
                              !.encoded = TRUE]]
        /\ UNCHANGED <<resizeBothSide, isGif, rCount, g, fn, proc, pending,
                       received, dropped, calls, first>>

\* The caller is done with the result (or has recovered from the panic) and
\* with the Processor; no running invocation still calls its closures.
Return(p) ==
    /\ inv[p].pc \in {"done", "panicked"}
    /\ \A r \in Procs \ {p} :
          inv[r].pc \in Running => \A n \in FnNames : fn[n] # p
    /\ inv' = [inv EXCEPT ![p] = Idle]
    /\ proc' = [proc EXCEPT ![p] = NoProcessor]
    /\ UNCHANGED <<resizeBothSide, isGif, rCount, g, fn, pending, received,
                   dropped, calls, first>>

\* A receiver of imgWorker takes the buffer of one of the waiting senders.
Receive ==
    \E s \in pending :
        /\ pending' = pending \ {s}
        /\ received' = Append(received, s)
        /\ UNCHANGED <<resizeBothSide, isGif, rCount, g, fn, proc, inv,
                       dropped, calls, first>>

\* A value sent on errs ends one of the waiting senders.
Drop ==
    \E s \in pending :
        /\ pending' = pending \ {s}
        /\ dropped' = dropped \cup {s}
        /\ UNCHANGED <<resizeBothSide, isGif, rCount, g, fn, proc, inv,
                       received, calls, first>>

\* The outcome of a finished invocation.
Noted(p) ==
    [set |-> TRUE, in |-> inv[p].in, kind |-> inv[p].pc, ret |-> inv[p].ret]

\* An observer notes the outcome of a finished invocation, once.
Note(p) ==
    /\ inv[p].pc \in {"done", "panicked"}
    /\ ~first.set
    /\ first' = Noted(p)
    /\ UNCHANGED <<resizeBothSide, isGif, rCount, g, fn, proc, inv, pending,
                   received, dropped, calls>>

\* ---------------------------------------------------------- specifications
Sizes == 1..MaxDim

Targets == 0..MaxTarget

\* What a caller may ask of Resize: pixel targets, with Square or without;
\* percents with the Percentage option; Percentage together with Square
\* with one of the two dimensions left out.
Inputs ==
    [W : Sizes, H : Sizes, NewWidth : Targets, NewHeight : Targets,
     Percentage : {FALSE}, Square : BOOLEAN, Debug : {FALSE}, gif : {FALSE}]
    \cup
    [W : Sizes, H : Sizes, NewWidth : Percents, NewHeight : Percents,
     Percentage : {TRUE}, Square : {FALSE}, Debug : {FALSE}, gif : {FALSE}]
    \cup
    {in \in [W : Sizes, H : Sizes, NewWidth : Percents, NewHeight : Percents,
             Percentage : {TRUE}, Square : {TRUE}, Debug : {FALSE},
             gif : {FALSE}] : in.NewWidth = 0 \/ in.NewHeight = 0}

\* Spec: one goroutine calls Process, one invocation after the other.
Next ==
    \/ \E in \in Inputs : Call(1, in, MaxCalls)
    \/ CallFn(1)
    \/ VertEntry(1)
    \/ Finish(1)
    \/ Return(1)

Spec == Init /\ [][Next]_vars

\* SpecSink: one goroutine calls Process on small sources while a receiver
\* may take buffers from imgWorker and errs may end waiting senders, each at
\* any time or never.  Only the calling goroutine is scheduled fairly.
SinkSizes == {SinkDim}

SinkTargets == {0} \cup ((SinkDim - 2)..(SinkDim + 1))

SinkInputs ==
    [W : SinkSizes, H : SinkSizes, NewWidth : SinkTargets,
     NewHeight : SinkTargets, Percentage : {FALSE}, Square : {FALSE},
     Debug : {FALSE}, gif : {FALSE}]

Driver(p) == CallFn(p) \/ VertEntry(p) \/ Finish(p)

NextSink ==
    \/ \E in \in SinkInputs : Call(1, in, SinkCalls)
    \/ CallFn(1)
    \/ VertEntry(1)
    \/ Finish(1)
    \/ Return(1)
    \/ Receive
    \/ Drop

SpecSink == Init /\ [][NextSink]_vars /\ WF_vars(Driver(1))

\* SpecConc: two goroutines call Resize, each on its own Processor and its
\* own image, at the same time.
ConcSizes == {ConcDim}

ConcTargets == {0} \cup ((ConcDim - 2)..(ConcDim + 1))

ConcInputs ==
    [W : ConcSizes, H : ConcSizes, NewWidth : ConcTargets,
     NewHeight : ConcTargets, Percentage : {FALSE}, Square : {FALSE},
     Debug : {FALSE}, gif : {FALSE}]

NextConc ==
    \/ \E p \in Procs : \E in \in ConcInputs : Call(p, in, ConcCalls)
    \/ \E p \in Procs : CallFn(p)
    \/ \E p \in Procs : VertEntry(p)
    \/ \E p \in Procs : Finish(p)
    \/ \E p \in Procs : Return(p)

SpecConc == Init /\ [][NextConc]_vars

\* SpecDet: one goroutine calls Process several times, with a new Processor
\* or with the one it used before, to a .gif file or not, with Debug or
\* without; an observer notes the first outcome it looks at.
DetSizes == {DetDim}

DetTargets == {0, 1, DetDim - 1}

DetInputs ==
    [W : DetSizes, H : DetSizes, NewWidth : DetTargets,
     NewHeight : DetTargets, Percentage : {FALSE}, Square : {FALSE},
     Debug : BOOLEAN, gif : BOOLEAN]

NextDet ==
    \/ \E in \in DetInputs : Call(1, in, DetCalls)
    \/ \E W \in DetSizes, H \in DetSizes, gif \in BOOLEAN :
          CallAgain(1, W, H, gif, DetCalls)
    \/ CallFn(1)
    \/ VertEntry(1)
    \/ Finish(1)
    \/ Return(1)
    \/ Note(1)

SpecDet == Init /\ [][NextDet]_vars

\* SpecSeq: one goroutine calls Resize several times in plain mode, with a
\* new Processor or with the one it used before, shrinking and enlarging
\* either axis or both.
SeqSizes == {SeqDim}

SeqTargets == {0} \cup ((SeqDim - 2)..(SeqDim + 1))

SeqInputs ==
    [W : SeqSizes, H : SeqSizes, NewWidth : SeqTargets,
     NewHeight : SeqTargets, Percentage : {FALSE}, Square : {FALSE},
     Debug : {FALSE}, gif : {FALSE}]

NextSeq ==
    \/ \E in \in SeqInputs : Call(1, in, SeqCalls)
    \/ \E W \in SeqSizes, H \in SeqSizes : CallAgain(1, W, H, FALSE, SeqCalls)
    \/ CallFn(1)
    \/ VertEntry(1)
    \/ Finish(1)
    \/ Return(1)

SpecSeq == Init /\ [][NextSeq]_vars

\* SpecNoPreview: the calls of SpecSeq with Preview off: Process starts no
\* showPreview (lines 419-439), so nothing receives from imgWorker and nothing
\* sends on errs.  Every step the program can take is taken eventually.
SpecNoPreview == Init /\ [][NextSeq]_vars /\ WF_vars(NextSeq)

\* ------------------------------------------------------------------ claims
Returned(p) == inv[p].pc = "done"

Plain(p) == ~inv[p].in.Percentage /\ ~inv[p].in.Square

\* C1: in plain mode (Percentage and Square off) a Resize that returns
\* without error returns an image whose width is NewWidth if NewWidth > 0
\* else W, and whose height is NewHeight if NewHeight > 0 else H.
PlainShape ==
    \A p \in Procs :
        (Returned(p) /\ Plain(p) /\ inv[p].ret.err = "nil") =>
            /\ ~inv[p].ret.img.nil
            /\ inv[p].ret.img.w = (IF inv[p].in.NewWidth > 0
                                   THEN inv[p].in.NewWidth ELSE inv[p].in.W)
            /\ inv[p].ret.img.h = (IF inv[p].in.NewHeight > 0
                                   THEN inv[p].in.NewHeight ELSE inv[p].in.H)

\* The shape of C1 whenever no carve step of the invocation failed.
PlainShapeUnlessCarveFails ==
    \A p \in Procs :
        (Returned(p) /\ Plain(p) /\ ~inv[p].failed) =>
            /\ ~inv[p].ret.img.nil
            /\ inv[p].ret.img.w = (IF inv[p].in.NewWidth > 0
                                   THEN inv[p].in.NewWidth ELSE inv[p].in.W)
            /\ inv[p].ret.img.h = (IF inv[p].in.NewHeight > 0
                                   THEN inv[p].in.NewHeight ELSE inv[p].in.H)

\* C2: with Square on, Percentage off and both NewWidth and NewHeight
\* positive, Resize returns a square image of side min(NewWidth, NewHeight).
SquareShape ==
    \A p \in Procs :
        (Returned(p) /\ inv[p].in.Square /\ ~inv[p].in.Percentage
           /\ inv[p].in.NewWidth > 0 /\ inv[p].in.NewHeight > 0) =>
            /\ inv[p].ret.err = "nil"
            /\ ~inv[p].ret.img.nil
            /\ inv[p].ret.img.w = min(inv[p].in.NewWidth, inv[p].in.NewHeight)
            /\ inv[p].ret.img.h = min(inv[p].in.NewWidth, inv[p].in.NewHeight)

\* The shape of C2 whenever no carve step of the invocation failed.
SquareShapeUnlessCarveFails ==
    \A p \in Procs :
        (Returned(p) /\ inv[p].in.Square /\ ~inv[p].in.Percentage
           /\ inv[p].in.NewWidth > 0 /\ inv[p].in.NewHeight > 0
           /\ ~inv[p].failed) =>
            /\ inv[p].ret.img.w = min(inv[p].in.NewWidth, inv[p].in.NewHeight)
            /\ inv[p].ret.img.h = min(inv[p].in.NewWidth, inv[p].in.NewHeight)

\* C3: with Percentage on, Square off and NewWidth, NewHeight each 0 or a
\* percent in 1..99, Resize returns an image of width W*NewWidth/100 (W when
\* NewWidth is 0) and height H*NewHeight/100 (H when NewHeight is 0).
PercentageShape ==
    \A p \in Procs :
        (Returned(p) /\ inv[p].in.Percentage /\ ~inv[p].in.Square
           /\ inv[p].in.NewWidth \in 0..99 /\ inv[p].in.NewHeight \in 0..99) =>
            /\ inv[p].ret.err = "nil"
            /\ ~inv[p].ret.img.nil
            /\ inv[p].ret.img.w =
                 (IF inv[p].in.NewWidth = 0 THEN inv[p].in.W
                  ELSE (inv[p].in.W * inv[p].in.NewWidth) \div 100)
            /\ inv[p].ret.img.h =
                 (IF inv[p].in.NewHeight = 0 THEN inv[p].in.H
                  ELSE (inv[p].in.H * inv[p].in.NewHeight) \div 100)

\* C4: with Percentage on and a percent of 100 or more on either axis,
\* Resize returns an error and no image, and performs no rescale and no
\* carve iteration.
PercentageShrinkOnly ==
    \A p \in Procs :
        (inv[p].pc # "idle" /\ inv[p].in.Percentage
           /\ (inv[p].in.NewWidth >= 100 \/ inv[p].in.NewHeight >= 100)) =>
            /\ Returned(p)
            /\ inv[p].ret.err # "nil"
            /\ inv[p].ret.img.nil
            /\ inv[p].rescales = 0
            /\ inv[p].iter = 0

\* C5: with Square on and NewWidth = 0 or NewHeight = 0, Resize returns an
\* error and no image, without any rescale or carve iteration, whatever the
\* other options are.
SquareNeedsBoth ==
    \A p \in Procs :
        (inv[p].pc # "idle" /\ inv[p].in.Square
           /\ (inv[p].in.NewWidth = 0 \/ inv[p].in.NewHeight = 0)) =>
            /\ Returned(p)
            /\ inv[p].ret.err # "nil"
            /\ inv[p].ret.img.nil
            /\ inv[p].rescales = 0
            /\ inv[p].iter = 0

\* C6: once a carve step has failed, Resize returns a non-nil error and
\* Process reaches no encoder; Resize never returns a nil image together
\* with a nil error.
ErrorPropagation ==
    \A p \in Procs :
        /\ Returned(p) => ~(inv[p].ret.img.nil /\ inv[p].ret.err = "nil")
        /\ inv[p].failed =>
              /\ inv[p].pc # "panicked"
              /\ ~inv[p].encoded
              /\ Returned(p) => inv[p].ret.err # "nil"

\* C7: the buffers received from imgWorker arrive in the order of the carve
\* iterations that produced them: of two buffers of one Resize, the one of
\* the later iteration is never received first.
SinkOrder ==
    \A i, j \in 1..Len(received) :
        (i < j /\ received[i].no = received[j].no) =>
            received[i].iter < received[j].iter

\* C8: the driver never waits for the sink: a running Resize leaves its
\* carving loop (it returns, or it is aborted by a failed step) whether or
\* not anything is ever received from imgWorker or sent on errs.
DriverNeverBlocks ==
    \A p \in Procs :
        (inv[p].pc \in Running) ~> (inv[p].pc \in {"done", "panicked"})

\* Resize has returned after carving while every buffer it handed to the sink
\* still waits and none was ever received.
DriverDoneNoConsumer ==
    /\ Returned(1)
    /\ inv[1].iter >= 2
    /\ ~inv[1].failed
    /\ received = <<>>
    /\ dropped = {}
    /\ Cardinality({s \in pending : s.no = inv[1].no}) = inv[1].iter

\* C9: concurrent invocations on distinct Processors share no mutable state:
\* every closure an invocation calls is its own, and each returns what it
\* returns when run alone (in plain mode, without a failed carve step, the
\* requested shape).
Isolation ==
    \A p \in Procs :
        /\ inv[p].pc \in {"horiz", "vert"} => fn[inv[p].call] = p
        /\ ~inv[p].foreign
        /\ (Returned(p) /\ Plain(p) /\ ~inv[p].failed) =>
              /\ inv[p].ret.img.w = (IF inv[p].in.NewWidth > 0
                                     THEN inv[p].in.NewWidth ELSE inv[p].in.W)
              /\ inv[p].ret.img.h = (IF inv[p].in.NewHeight > 0
                                     THEN inv[p].in.NewHeight ELSE inv[p].in.H)

\* C10: two invocations given the same source and the same option values
\* produce the same result, whatever ran before them.
Deterministic ==
    \A p \in Procs :
        (inv[p].pc \in {"done", "panicked"} /\ first.set
           /\ first.in = inv[p].in) =>
            /\ first.kind = inv[p].pc
            /\ first.ret = inv[p].ret

\* The width and height of the working buffer of invocation p, in the
\* source's orientation.
CurWidth(p) == IF inv[p].img.rot % 2 = 0 THEN inv[p].img.w ELSE inv[p].img.h

CurHeight(p) == IF inv[p].img.rot % 2 = 0 THEN inv[p].img.h ELSE inv[p].img.w

\* The remaining delta of each axis: |current - target|, zero for an axis
\* whose target is 0 (left alone).
RemainingWidth(p) ==
    IF proc[p].NewWidth = 0 THEN 0 ELSE absint(CurWidth(p) - proc[p].NewWidth)

RemainingHeight(p) ==
    IF proc[p].NewHeight = 0 THEN 0 ELSE absint(CurHeight(p) - proc[p].NewHeight)

\* This step is a carve iteration of invocation p.
CarveStep(p) ==
    /\ inv[p].pc \in {"horiz", "vert"}
    /\ inv'[p].iter = inv[p].iter + 1

HorizStep(p) == inv[p].call \in {"shrinkHorizFn", "enlargeHorizFn"}

\* C11: when both axes are resized, every carve step carves the axis whose
\* remaining delta is larger, the horizontal one when the two are equal.
InterleavingPolicy ==
    [][\A p \in Procs :
          (CarveStep(p) /\ proc[p].NewWidth # 0 /\ proc[p].NewHeight # 0) =>
              IF HorizStep(p)
              THEN RemainingWidth(p) >= RemainingHeight(p)
              ELSE RemainingHeight(p) > RemainingWidth(p)]_vars

\* The carve iterations an invocation owes: |w0 - Tw| + |h0 - Th|, with
\* (w0, h0) the bounds the carver holds after the option stage and the
\* pre-scale, and (Tw, Th) the targets as Resize resolved them (an axis
\* whose target is 0 is left alone).
OwedIterations(p) ==
    (IF proc[p].NewWidth = 0 THEN 0
     ELSE absint(inv[p].c.Width - proc[p].NewWidth))
    + (IF proc[p].NewHeight = 0 THEN 0
       ELSE absint(inv[p].c.Height - proc[p].NewHeight))

\* C12: for every configuration that passes validation Resize terminates,
\* after exactly |w0 - Tw| + |h0 - Th| carve iterations.
ExactIterations ==
    \A p \in Procs :
        (inv[p].pc \in {"done", "panicked"} /\ inv[p].ret.err = "nil") =>
            /\ Returned(p)
            /\ inv[p].iter = OwedIterations(p)

\* The count of C12 whenever no carve step of the invocation failed.
ExactIterationsUnlessCarveFails ==
    \A p \in Procs :
        (Returned(p) /\ inv[p].ret.err = "nil" /\ ~inv[p].failed) =>
            inv[p].iter = OwedIterations(p)

\* The count of C12 in plain mode whenever no carve step failed.
ExactIterationsPlain ==
    \A p \in Procs :
        (Returned(p) /\ Plain(p) /\ ~inv[p].failed) =>
            inv[p].iter = OwedIterations(p)

\* Every carve iteration changes one dimension of the working buffer by one
\* pixel, towards its target.
OnePixelTowardsTarget ==
    [][\A p \in Procs :
          CarveStep(p) =>
              \/ /\ RemainingWidth(p)' = RemainingWidth(p) - 1
                 /\ CurHeight(p)' = CurHeight(p)
              \/ /\ RemainingHeight(p)' = RemainingHeight(p) - 1
                 /\ CurWidth(p)' = CurWidth(p)]_vars

\* Both targets of invocation p are non-zero and smaller than the source.
ShrinksBoth(p) ==
    /\ inv[p].in.NewWidth # 0 /\ inv[p].in.NewHeight # 0
    /\ inv[p].in.NewWidth < inv[p].in.W
    /\ inv[p].in.NewHeight < inv[p].in.H

\* C13: in plain mode the pre-scale runs exactly when both targets are
\* non-zero and smaller than the source; after it one axis equals its target
\* and neither is below its target.
PrescaleFits ==
    \A p \in Procs :
        (inv[p].pc # "idle" /\ Plain(p)) =>
            /\ (inv[p].rescales = 1) <=> ShrinksBoth(p)
            /\ inv[p].rescales \in {0, 1}
            /\ ShrinksBoth(p) =>
                  /\ \/ inv[p].c.Width = inv[p].in.NewWidth
                     \/ inv[p].c.Height = inv[p].in.NewHeight
                  /\ inv[p].c.Width >= inv[p].in.NewWidth
                  /\ inv[p].c.Height >= inv[p].in.NewHeight

\* The first part of C13 alone: when the pre-scale runs.
PrescaleRunsWhenShrinkingBoth ==
    \A p \in Procs :
        (inv[p].pc # "idle" /\ Plain(p)) =>
            /\ (inv[p].rescales = 1) <=> ShrinksBoth(p)
            /\ inv[p].rescales \in {0, 1}

DebugLeavesBuffer ==
    \A p \in Procs :
        inv[p].in.Debug =>
            /\ inv[p].buf.paint = {}
            /\ inv[p].img.paint = {}
            /\ inv[p].ret.img.paint = {}

\* C16: when the destination is a .gif file, the animation holds one frame
\* per carve iteration of that call, and every frame shows the buffer in the
\* orientation of the source.
GifFrames ==
    \A p \in Procs :
        (Returned(p) /\ inv[p].in.gif) =>
            /\ Len(g.Image) = inv[p].iter
            /\ \A k \in 1..Len(g.Image) : g.Image[k].src.rot = 0

\* The frame count of C16 alone.
GifFrameCount ==
    \A p \in Procs :
        (Returned(p) /\ inv[p].in.gif) => Len(g.Image) = inv[p].iter

\* C17: after Resize has returned, with or without error, the fields NewWidth
\* and NewHeight of the Processor hold the values the caller set.
OptionsUnchanged ==
    \A p \in Procs :
        Returned(p) =>
            /\ proc[p].NewWidth = inv[p].in.NewWidth
            /\ proc[p].NewHeight = inv[p].in.NewHeight

\* The frame condition of C17 in plain mode.
OptionsUnchangedPlain ==
    \A p \in Procs :
        (Returned(p) /\ Plain(p)) =>
            /\ proc[p].NewWidth = inv[p].in.NewWidth
            /\ proc[p].NewHeight = inv[p].in.NewHeight

\* C18: every goroutine started by a carve step to deliver its buffer ends,
\* also when nothing receives from imgWorker or sends on errs: once Resize
\* has returned, the goroutines still waiting on the sink come down to none.
SendersTerminate ==
    \A p \in Procs : Returned(p) ~> (pending = {})

\* Without a receiver no step of the program ends a waiting sender.
SendersStayWithoutReceiver == [][pending \subseteq pending']_vars

====
